---- MODULE Spec2Model ----
(***************************************************************************)
(* Model of the "VSE to 3D Environment" add-on (src/__init__.py): the two  *)
(* conversion operators, the helpers they call, and the part of the host   *)
(* scene (objects by name, world, render engine) that they change.         *)
(*                                                                         *)
(* Lengths are integers in units of 1/10000 (Unit = 1.0).  Angles are in   *)
(* units of 1/10000 radian.  Float rounding is modelled by rounding to the *)
(* nearest unit.                                                           *)
(* Object locations and scales, light energy and world strengths are in    *)
(* whole units, rotations in degrees.                                      *)
(*                                                                         *)
(* The host is modelled where the code calls it: it keeps object names     *)
(* unique by numeric suffixes, primitive_uv_sphere_add hands back one of a *)
(* small set of meshes, mesh.separate makes no object when no face is      *)
(* selected, and images.load either returns the image or raises.           *)
(*                                                                         *)
(* Not modelled: the edit/object mode of the host, and the orphan mesh,    *)
(* material and image datablocks that deleted objects leave behind.        *)
(***************************************************************************)
EXTENDS Integers, Sequences, FiniteSets, TLC

VARIABLES objects, world, engine, result, report, call

vars == <<objects, world, engine, result, report, call>>

-----------------------------------------------------------------------------
(* Object names                                                            *)

NAME_DOME_SHELL == "VSE_Dome_Shell"

NAME_DOME_FLOOR == "VSE_Dome_Floor"

NAME_ENV_CATCHER == "VSE_Shadow_Catcher"

NAME_SUN == "VSE_Sun"

ReservedNames == {NAME_DOME_SHELL, NAME_DOME_FLOOR, NAME_ENV_CATCHER, NAME_SUN}

DomeNames == {NAME_DOME_SHELL, NAME_DOME_FLOOR, NAME_SUN}

(* A host name is <<base, n>>: n = 0 is the bare name, n > 0 the numeric   *)
(* suffix ".00n" the host appends to keep names unique.                    *)
Bare(base) == <<base, 0>>

-----------------------------------------------------------------------------
(* Numbers                                                                 *)

Unit == 10000

(* the face-selection tolerance 0.001 *)
FLOOR_EPS == 10

(* the radius 0.0001 below which a vertex is left alone *)
CENTER_EPS == 1

(* math.pi / 2.0 = 1.5707963... *)
HALF_PI == 15708

(* the dome's object scale *)
DOME_SCALE == 20

Min2(a, b) == IF a < b THEN a ELSE b

RECURSIVE ISqrtIn(_, _, _)
ISqrtIn(n, lo, hi) ==
    IF lo >= hi THEN lo
    ELSE LET mid == (lo + hi + 1) \div 2
         IN  IF mid * mid <= n THEN ISqrtIn(n, mid, hi) ELSE ISqrtIn(n, lo, mid - 1)

(* math.sqrt, rounded down to the unit *)
Sqrt(n) == ISqrtIn(n, 0, 2 * Unit)

(* math.asin on the radii the meshes below use: asin(r / Unit) in 1/10000 rad *)
AsinTable ==
    [r \in {2, 2500, 5000, 7500, 10000} |->
        CASE r = 2 -> 2
          [] r = 2500 -> 2527
          [] r = 5000 -> 5236
          [] r = 7500 -> 8481
          [] r = 10000 -> 15708]

Asin(r) == AsinTable[r]

(* a / b rounded to the nearest integer, a >= 0, b > 0 *)
RoundDiv(a, b) == (2 * a + b) \div (2 * b)

-----------------------------------------------------------------------------
(* Meshes the host's primitive generator may hand back.  A mesh is         *)
(* [verts: vertex index -> <<x, y, z>>, faces: face index -> vertex        *)
(* indices].  After a split an object keeps the original indices of the    *)
(* vertices and faces it holds.                                            *)

(* a coarse unit sphere: two faces above the equator, two below *)
MeshDome ==
    [verts |-> <<
        <<0, 0, -10000>>, <<5000, 0, -8660>>, <<3000, 4000, -8660>>,
        <<10000, 0, 0>>, <<6000, 8000, 0>>,
        <<5000, 0, 8660>>, <<3000, 4000, 8660>>, <<0, 0, 10000>> >>,
     faces |-> << <<6, 8, 7>>, <<4, 6, 7, 5>>, <<2, 4, 5, 3>>, <<1, 2, 3>> >>]

(* five faces whose median z is -0.5, -0.1, 0.0, 0.2, 0.9 *)
MeshExample ==
    [verts |-> <<
        <<0, 0, -5000>>, <<2, 0, -5000>>, <<0, 1, -5000>>,
        <<7500, 0, -2000>>, <<0, 7500, -1000>>, <<-7500, 0, 0>>,
        <<0, -10000, -3000>>, <<10000, 0, 0>>, <<0, 10002, 3000>>,
        <<2500, 0, 2000>>, <<0, 2500, 2000>>, <<5000, 0, 2000>>,
        <<0, 0, 9000>>, <<2500, 0, 9000>>, <<1500, 2000, 9000>> >>,
     faces |-> << <<1, 2, 3>>, <<4, 5, 6>>, <<7, 8, 9>>, <<10, 11, 12>>,
                  <<13, 14, 15>> >>]

(* faces whose median z sits at and just above the tolerance *)
MeshEdge ==
    [verts |-> <<
        <<5000, 0, 10>>, <<0, 5000, 10>>, <<0, 0, 10>>,
        <<5000, 0, 11>>, <<0, 5000, 11>>, <<0, 0, 11>>,
        <<2500, 0, 10>>, <<0, 2500, 10>>, <<0, 0, 11>>,
        <<3000, 4000, 20>>, <<-3000, -4000, 0>>, <<0, 0, 10>> >>,
     faces |-> << <<1, 2, 3>>, <<4, 5, 6>>, <<7, 8, 9>>, <<10, 11, 12>> >>]

(* only the upper half: no face at or below the tolerance *)
MeshAllShell ==
    [verts |-> <<
        <<10000, 0, 0>>, <<6000, 8000, 0>>,
        <<5000, 0, 8660>>, <<3000, 4000, 8660>>, <<0, 0, 10000>> >>,
     faces |-> << <<1, 3, 4, 2>>, <<3, 5, 4>> >>]

(* only the lower half: every face at or below the tolerance *)
MeshAllFloor ==
    [verts |-> <<
        <<0, 0, -10000>>, <<5000, 0, -8660>>, <<3000, 4000, -8660>>,
        <<10000, 0, 0>>, <<6000, 8000, 0>> >>,
     faces |-> << <<1, 2, 3>>, <<2, 4, 5, 3>> >>]

MeshKeys == {"DOME", "EXAMPLE", "EDGE", "ALL_SHELL", "ALL_FLOOR"}

Mesh(key) ==
    CASE key = "DOME" -> MeshDome
      [] key = "EXAMPLE" -> MeshExample
      [] key = "EDGE" -> MeshEdge
      [] key = "ALL_SHELL" -> MeshAllShell
      [] key = "ALL_FLOOR" -> MeshAllFloor

NoVerts == [i \in {} |-> <<0, 0, 0>>]

NoFaces == [i \in {} |-> <<>>]

-----------------------------------------------------------------------------
(* Strips and paths.  A path is a sequence of parts; "//" is the host's    *)
(* blend-file-relative prefix.  NonePath is Python's None.                 *)

NonePath == <<"None">>

NoEditorStrip ==
    [editor |-> FALSE, active |-> FALSE, type |-> "", filepath |-> <<>>,
     directory |-> <<>>, filename |-> ""]

NoActiveStrip == [NoEditorStrip EXCEPT !.editor = TRUE]

MovieStrip ==
    [editor |-> TRUE, active |-> TRUE, type |-> "MOVIE",
     filepath |-> <<"//", "clip.mp4">>, directory |-> <<>>, filename |-> ""]

EmptyMovieStrip == [MovieStrip EXCEPT !.filepath = <<>>]

ImageStrip ==
    [editor |-> TRUE, active |-> TRUE, type |-> "IMAGE", filepath |-> <<>>,
     directory |-> <<"/hdri/">>, filename |-> "pano.jpg"]

SoundStrip ==
    [editor |-> TRUE, active |-> TRUE, type |-> "SOUND",
     filepath |-> <<"//", "wind.wav">>, directory |-> <<>>, filename |-> ""]

Strips ==
    {NoEditorStrip, NoActiveStrip, MovieStrip, EmptyMovieStrip, ImageStrip,
     SoundStrip}

(* bpy.path.abspath: a leading "//" becomes the blend file's directory *)
AbsPath(path) ==
    IF path # <<>> /\ Head(path) = "//" THEN <<"/blend/">> \o Tail(path) ELSE path

get_strip_path(strip) ==
    IF ~strip.editor \/ ~strip.active THEN NonePath
    ELSE IF strip.type = "MOVIE" THEN AbsPath(strip.filepath)
    ELSE IF strip.type = "IMAGE" THEN AbsPath(strip.directory \o <<strip.filename>>)
    ELSE NonePath

(* Python's "not filepath": None and the empty string are both false *)
NotPath(filepath) == filepath = NonePath \/ filepath = <<>>

(* bpy.data.images.load inside try/except: the image, or None when it raises *)
LoadImage(path, imageOK) == IF imageOK THEN path ELSE NonePath

-----------------------------------------------------------------------------
(* Host objects.  Every object record has the same fields.                 *)

(* the host keeps object names unique: the bare name if free, else the     *)
(* least free numeric suffix                                               *)
UniqueName(objs, base) ==
    IF \A o \in objs : o.name # Bare(base) THEN Bare(base)
    ELSE LET taken == {o.name[2] : o \in {p \in objs : p.name[1] = base}}
         IN  <<base, CHOOSE k \in 1..(Cardinality(taken) + 1) :
                        k \notin taken /\ \A j \in 1..(k - 1) : j \in taken>>

(* A Python reference to an object is modelled by the object's current     *)
(* host name, which is unique.                                             *)
Obj(objs, ref) == CHOOSE o \in objs : o.name = ref

Named(objs, name) == {o \in objs : o.name = Bare(name)}

(* the name the object ref has after obj.name = base *)
Renamed(objs, ref, base) ==
    IF ref = Bare(base) THEN ref ELSE UniqueName(objs \ {Obj(objs, ref)}, base)

(* obj.name = base *)
Rename(objs, ref, base) ==
    {IF o.name = ref THEN [o EXCEPT !.name = Renamed(objs, ref, base)] ELSE o :
     o \in objs}

NewObject(name, type) ==
    [name |-> name, type |-> type, verts |-> NoVerts, faces |-> NoFaces,
     location |-> <<0, 0, 0>>, rotation |-> <<0, 0, 0>>, scale |-> <<1, 1, 1>>,
     smooth |-> FALSE, materials |-> <<>>, visible_shadow |-> TRUE,
     is_shadow_catcher |-> FALSE, energy |-> 0]

(* bpy.ops.mesh.primitive_uv_sphere_add: a new mesh object "Sphere" holding *)
(* the generated mesh                                                      *)
SphereAdd(objs, mesh) ==
    objs \cup {[NewObject(UniqueName(objs, "Sphere"), "MESH") EXCEPT
                  !.verts = [i \in DOMAIN mesh.verts |-> mesh.verts[i]],
                  !.faces = [f \in DOMAIN mesh.faces |-> mesh.faces[f]]]}

(* bpy.ops.mesh.primitive_plane_add(size=100) *)
PlaneAdd(objs) ==
    objs \cup {[NewObject(UniqueName(objs, "Plane"), "MESH") EXCEPT
                  !.verts = [i \in 1..4 |->
                               <<(IF i \in {1, 3} THEN -50 ELSE 50) * Unit,
                                 (IF i \in {1, 2} THEN -50 ELSE 50) * Unit, 0>>],
                  !.faces = [f \in {1} |-> <<1, 2, 4, 3>>]]}

(* bpy.ops.object.light_add(type='SUN', location=(0, 0, 10)) *)
LightAdd(objs) ==
    objs \cup {[NewObject(UniqueName(objs, "Sun"), "LIGHT") EXCEPT
                  !.location = <<0, 0, 10>>, !.energy = 1]}

(* faulty variant: the existing object is looked up but never removed *)
DeleteNothing(objs, name) == objs

delete_existing_object(objs, name) == objs \ Named(objs, name)

-----------------------------------------------------------------------------
(* Node graphs.  A link is <<from node, output socket, to node, input      *)
(* socket>>.  links.new replaces the link an input socket already has.     *)

LinksNew(links, l) ==
    {k \in links : ~(k[3] = l[3] /\ k[4] = l[4])} \cup {l}

RECURSIVE LinkAll(_, _)
LinkAll(links, todo) ==
    IF todo = <<>> THEN links
    ELSE LinkAll(LinksNew(links, Head(todo)), Tail(todo))

FloorNodes ==
    [n \in {"node_out", "node_mix", "node_emit", "node_diff", "node_tex",
            "node_coord", "node_map_rot", "node_sep", "node_atan", "node_range_u",
            "node_len", "node_mult_v", "node_comb"} |->
        CASE n = "node_out" -> "ShaderNodeOutputMaterial"
          [] n = "node_mix" -> "ShaderNodeMixShader"
          [] n = "node_emit" -> "ShaderNodeEmission"
          [] n = "node_diff" -> "ShaderNodeBsdfDiffuse"
          [] n = "node_tex" -> "ShaderNodeTexImage"
          [] n = "node_coord" -> "ShaderNodeTexCoord"
          [] n = "node_map_rot" -> "ShaderNodeMapping"
          [] n = "node_sep" -> "ShaderNodeSeparateXYZ"
          [] n = "node_atan" -> "ShaderNodeMath:ARCTAN2"
          [] n = "node_range_u" -> "ShaderNodeMapRange"
          [] n = "node_len" -> "ShaderNodeVectorMath:LENGTH"
          [] n = "node_mult_v" -> "ShaderNodeMath:MULTIPLY"
          [] n = "node_comb" -> "ShaderNodeCombineXYZ"]

(* faulty variant: the link from the mix shader to the output is missing *)
FloorLinkListUnwired ==
    << <<"node_coord", "Object", "node_map_rot", "Vector">>,
       <<"node_map_rot", "Vector", "node_sep", "Vector">>,
       <<"node_sep", "Y", "node_atan", "0">>,
       <<"node_sep", "X", "node_atan", "1">>,
       <<"node_atan", "Value", "node_range_u", "0">>,
       <<"node_range_u", "Result", "node_comb", "X">>,
       <<"node_map_rot", "Vector", "node_len", "0">>,
       <<"node_len", "Value", "node_mult_v", "0">>,
       <<"node_mult_v", "Value", "node_comb", "Y">>,
       <<"node_comb", "Vector", "node_tex", "Vector">>,
       <<"node_tex", "Color", "node_emit", "Color">>,
       <<"node_tex", "Color", "node_diff", "Color">>,
       <<"node_emit", "Emission", "node_mix", "1">>,
       <<"node_diff", "BSDF", "node_mix", "2">> >>

(* the links.new calls of create_polar_shader, in order *)
FloorLinkList ==
    << <<"node_coord", "Object", "node_map_rot", "Vector">>,
       <<"node_map_rot", "Vector", "node_sep", "Vector">>,
       <<"node_sep", "Y", "node_atan", "0">>,
       <<"node_sep", "X", "node_atan", "1">>,
       <<"node_atan", "Value", "node_range_u", "0">>,
       <<"node_range_u", "Result", "node_comb", "X">>,
       <<"node_map_rot", "Vector", "node_len", "0">>,
       <<"node_len", "Value", "node_mult_v", "0">>,
       <<"node_mult_v", "Value", "node_comb", "Y">>,
       <<"node_comb", "Vector", "node_tex", "Vector">>,
       <<"node_tex", "Color", "node_emit", "Color">>,
       <<"node_tex", "Color", "node_diff", "Color">>,
       <<"node_emit", "Emission", "node_mix", "1">>,
       <<"node_diff", "BSDF", "node_mix", "2">>,
       <<"node_mix", "Shader", "node_out", "Surface">> >>

(* the node values create_polar_shader sets: mix factor 0.4, rotation -90  *)
(* degrees about z, map range [-pi, pi] -> [0, 1], multiply by 0.5         *)
FloorSettings ==
    [mix_fac |-> <<4, 10>>, rot_z_deg |-> -90,
     range |-> <<-2 * HALF_PI, 2 * HALF_PI, 0, Unit>>, mult |-> <<1, 2>>]

NoSettings == [mix_fac |-> <<0, 1>>, rot_z_deg |-> 0, range |-> <<0, 0, 0, 0>>,
               mult |-> <<0, 1>>]

(* the material create_polar_shader builds; when the load raises, the two  *)
(* assignments after it in the try block are skipped                       *)
PolarMaterial(image_path, imageOK) ==
    [name |-> "VSE_Dome_Mat_Floor", use_nodes |-> TRUE, nodes |-> FloorNodes,
     links |-> LinkAll({}, FloorLinkList),
     image |-> LoadImage(image_path, imageOK),
     extension |-> IF imageOK THEN "CLIP" ELSE "REPEAT",
     interpolation |-> "Linear", settings |-> FloorSettings]

ShellNodes ==
    [n \in {"tex", "coord", "emit", "out"} |->
        CASE n = "tex" -> "ShaderNodeTexEnvironment"
          [] n = "coord" -> "ShaderNodeTexCoord"
          [] n = "emit" -> "ShaderNodeEmission"
          [] n = "out" -> "ShaderNodeOutputMaterial"]

ShellLinkList ==
    << <<"coord", "Object", "tex", "Vector">>,
       <<"tex", "Color", "emit", "Color">>,
       <<"emit", "Emission", "out", "Surface">> >>

ShellMaterial(image_path, imageOK) ==
    [name |-> "VSE_Dome_Mat_Shell", use_nodes |-> TRUE, nodes |-> ShellNodes,
     links |-> LinkAll({}, ShellLinkList),
     image |-> LoadImage(image_path, imageOK),
     extension |-> "REPEAT", interpolation |-> "Linear", settings |-> NoSettings]

(* obj.data.materials.clear() then append(mat) *)
SetMaterial(objs, ref, mat) ==
    {IF o.name = ref THEN [o EXCEPT !.materials = <<mat>>] ELSE o : o \in objs}

create_polar_shader(objs, ref, image_path, imageOK) ==
    SetMaterial(objs, ref, PolarMaterial(image_path, imageOK))

create_dome_shell_mat(objs, ref, image_path, imageOK) ==
    SetMaterial(objs, ref, ShellMaterial(image_path, imageOK))

-----------------------------------------------------------------------------
(* Floor geometry                                                          *)

(* faulty variant: the angle is divided by pi instead of pi / 2 *)
NewRadiusOverPi(current_r) ==
    RoundDiv(Asin(Min2(current_r, Unit)) * Unit, 2 * HALF_PI)

(* new_r for a vertex at radius current_r > CENTER_EPS *)
NewRadius(current_r) ==
    LET curr_r_clamped == Min2(current_r, Unit)
        angle == Asin(curr_r_clamped)
    IN  RoundDiv(angle * Unit, HALF_PI)

(* c * (new_r / current_r), rounded to the unit *)
ScaleCoord(c, new_r, current_r) ==
    IF c >= 0 THEN RoundDiv(c * new_r, current_r)
    ELSE 0 - RoundDiv((0 - c) * new_r, current_r)

RedistributeVertex(v) ==
    LET x == v[1]
        y == v[2]
        current_r == Sqrt(x * x + y * y)
    IN  IF current_r > CENTER_EPS
        THEN LET new_r == NewRadius(current_r)
             IN  <<ScaleCoord(x, new_r, current_r), ScaleCoord(y, new_r, current_r),
                   v[3]>>
        ELSE v

redistribute_floor_geometry(objs, ref) ==
    {IF o.name = ref
     THEN [o EXCEPT !.verts = [i \in DOMAIN o.verts |-> RedistributeVertex(o.verts[i])]]
     ELSE o : o \in objs}

RECURSIVE SumZ(_, _)
SumZ(verts, face) ==
    IF face = <<>> THEN 0 ELSE verts[Head(face)][3] + SumZ(verts, Tail(face))

(* faulty variant: the comparison is strict *)
IsFloorFaceStrict(verts, face) == SumZ(verts, face) < FLOOR_EPS * Len(face)

(* f.calc_center_median().z <= 0.001: the mean of the face's vertices *)
IsFloorFace(verts, face) == SumZ(verts, face) <= FLOOR_EPS * Len(face)

(* the faces the loop selects *)
SelectBottom(o) == {f \in DOMAIN o.faces : IsFloorFace(o.verts, o.faces[f])}

VertsOf(faces, fs) == UNION {{faces[f][i] : i \in 1..Len(faces[f])} : f \in fs}

(* bpy.ops.mesh.separate(type='SELECTED'): the selected faces move, with   *)
(* copies of their vertices, to a new object that duplicates the original; *)
(* the original keeps the rest.  With nothing selected no object is made.  *)
Separate(objs, ref, sel) ==
    IF sel = {} THEN objs
    ELSE LET o == Obj(objs, ref)
             rest == DOMAIN o.faces \ sel
             old == [o EXCEPT !.faces = [f \in rest |-> o.faces[f]],
                              !.verts = [i \in VertsOf(o.faces, rest) |-> o.verts[i]]]
             new == [o EXCEPT !.name = UniqueName(objs, o.name[1]),
                              !.faces = [f \in sel |-> o.faces[f]],
                              !.verts = [i \in VertsOf(o.faces, sel) |-> o.verts[i]]]
         IN  (objs \ {o}) \cup {old, new}

(* context.selected_objects after the separation *)
SelectedAfterSeparate(objs, ref, sel) ==
    IF sel = {} THEN {ref} ELSE {ref, UniqueName(objs, ref[1])}

(* None, for a Python reference *)
NoRef == <<"None", 0>>

(* faulty variant: the first selected object, the dome included *)
FindFloorAny(selected, dome) == CHOOSE ref \in selected : TRUE

(* the first selected object that is not the dome *)
FindFloor(selected, dome) ==
    IF \E ref \in selected : ref # dome
    THEN CHOOSE ref \in selected : ref # dome
    ELSE NoRef

-----------------------------------------------------------------------------
(* The world.  A world node is [name, type, strength, image]; strength is  *)
(* the Background node's second input, in whole units.                     *)

WNode(name, type, strength, image) ==
    [name |-> name, type |-> type, strength |-> strength, image |-> image]

NoWorld ==
    [exists |-> FALSE, name |-> "", use_nodes |-> FALSE, has_tree |-> FALSE,
     nodes |-> {}, links |-> {}]

(* bpy.data.worlds.new(name): a world without a node tree *)
NewWorld(name) == [NoWorld EXCEPT !.exists = TRUE, !.name = name]

(* the tree the host builds when nodes are first switched on *)
DefaultWorldNodes ==
    {WNode("Background", "ShaderNodeBackground", 1, NonePath),
     WNode("World Output", "ShaderNodeOutputWorld", 0, NonePath)}

DefaultWorldLinks == {<<"Background", "Background", "World Output", "Surface">>}

(* world.use_nodes = True *)
UseNodes(w) ==
    IF w.has_tree THEN [w EXCEPT !.use_nodes = TRUE]
    ELSE [w EXCEPT !.use_nodes = TRUE, !.has_tree = TRUE,
                   !.nodes = DefaultWorldNodes, !.links = DefaultWorldLinks]

(* bg = nodes.get('Background'); if bg: bg.inputs[1].default_value = 0.0 *)
DarkenBackground(w) ==
    [w EXCEPT !.nodes = {IF n.name = "Background" THEN [n EXCEPT !.strength = 0]
                         ELSE n : n \in w.nodes}]

(* the "Environment Darkening" block of the half-dome operator *)
DarkenWorld(w) ==
    DarkenBackground(UseNodes(IF ~w.exists THEN NewWorld("Dark") ELSE w))

(* the "World" block of the environment operator *)
RebuildWorld(w, filepath, imageOK) ==
    LET w1 == UseNodes(IF w.exists THEN w ELSE NewWorld("VSE_World"))
    IN  [w1 EXCEPT
           !.nodes = {WNode("Environment Texture", "ShaderNodeTexEnvironment", 0,
                            LoadImage(filepath, imageOK)),
                      WNode("Background", "ShaderNodeBackground", 1, NonePath),
                      WNode("World Output", "ShaderNodeOutputWorld", 0, NonePath)},
           !.links = LinkAll({},
                       << <<"Environment Texture", "Color", "Background", "Color">>,
                          <<"Background", "Background", "World Output", "Surface">> >>)]

-----------------------------------------------------------------------------
(* The operators.  Each returns the scene it leaves, its return value, its *)
(* report and the names of the objects it created.                         *)

Outcome(objs, w, eng, res, rep, created) ==
    [objects |-> objs, world |-> w, engine |-> eng, result |-> res, report |-> rep,
     created |-> created]

NoReport == <<>>

(* VSE_OT_ConvertToEnvironment.execute *)
EnvironmentExecute(objs, w, eng, strip, imageOK) ==
    LET filepath == get_strip_path(strip)
        o1 == delete_existing_object(objs, NAME_ENV_CATCHER)
        o2 == PlaneAdd(o1)
        plane0 == UniqueName(o1, "Plane")
        o3 == Rename(o2, plane0, NAME_ENV_CATCHER)
        plane == Renamed(o2, plane0, NAME_ENV_CATCHER)
        o4 == {IF o.name = plane THEN [o EXCEPT !.is_shadow_catcher = TRUE] ELSE o :
               o \in o3}
    IN  IF NotPath(filepath) THEN Outcome(objs, w, eng, "CANCELLED", NoReport, {})
        ELSE Outcome(o4, RebuildWorld(w, filepath, imageOK), "CYCLES", "FINISHED",
                     NoReport, {plane})

(* the calls of the half-dome operator that go through bpy.ops, in order;  *)
(* the host raises RuntimeError out of such a call when it fails           *)
FAULT_SPHERE_ADD == 1

FAULT_SHADE_SMOOTH == 2

FAULT_MODE_EDIT == 3

FAULT_SELECT_ALL == 4

FAULT_SEPARATE == 5

FAULT_MODE_OBJECT == 6

FAULT_REDISTRIBUTE_MODE == 7

FAULT_LIGHT_ADD == 8

FaultPoints == FAULT_SPHERE_ADD..FAULT_LIGHT_ADD

(* if floor: *)
HasFloor(floor) == floor # NoRef

(* faulty variant: the floor is renamed but its z scale is left alone *)
FloorNameOnly(objs, floor) ==
    IF HasFloor(floor) THEN Rename(objs, floor, NAME_DOME_FLOOR) ELSE objs

(* the floor branch up to the call in redistribute_floor_geometry *)
FloorNameAndFlatten(objs, floor) ==
    IF HasFloor(floor)
    THEN {IF o.name = Renamed(objs, floor, NAME_DOME_FLOOR)
          THEN [o EXCEPT !.scale[3] = 0] ELSE o :
          o \in Rename(objs, floor, NAME_DOME_FLOOR)}
    ELSE objs

(* the rest of the floor branch; floor is the floor's name by now *)
FloorRemapAndMaterial(objs, floor, filepath, imageOK) ==
    IF HasFloor(floor)
    THEN {IF o.name = floor THEN [o EXCEPT !.visible_shadow = FALSE] ELSE o :
          o \in create_polar_shader(redistribute_floor_geometry(objs, floor), floor,
                                    filepath, imageOK)}
    ELSE objs

ShellMaterialStep(objs, dome, filepath, imageOK) ==
    {IF o.name = dome THEN [o EXCEPT !.visible_shadow = FALSE] ELSE o :
     o \in create_dome_shell_mat(objs, dome, filepath, imageOK)}

AddSun(objs) ==
    LET o1 == LightAdd(objs)
        sun0 == UniqueName(objs, "Sun")
        sun == Renamed(o1, sun0, NAME_SUN)
    IN  {IF o.name = sun
         THEN [o EXCEPT !.energy = 3, !.rotation = <<45, 15, 0>>]
         ELSE o : o \in Rename(o1, sun0, NAME_SUN)}

(* VSE_OT_ConvertToHalfDome.execute; failAt is the bpy.ops call that       *)
(* raises, 0 for none                                                      *)
HalfDomeExecute(objs, w, eng, strip, mesh, imageOK, failAt) ==
    LET filepath == get_strip_path(strip)
        o1 == delete_existing_object(
                  delete_existing_object(
                      delete_existing_object(objs, NAME_DOME_SHELL), NAME_DOME_FLOOR),
                  NAME_SUN)
        w1 == DarkenWorld(w)
        sphere == UniqueName(o1, "Sphere")
        o1a == SphereAdd(o1, mesh)
        dome == Renamed(o1a, sphere, NAME_DOME_SHELL)
        o2 == {IF o.name = dome
               THEN [o EXCEPT !.scale = <<DOME_SCALE, DOME_SCALE, DOME_SCALE>>]
               ELSE o : o \in Rename(o1a, sphere, NAME_DOME_SHELL)}
        o3 == {IF o.name = dome THEN [o EXCEPT !.smooth = TRUE] ELSE o : o \in o2}
        sel == SelectBottom(Obj(o3, dome))
        o4 == Separate(o3, dome, sel)
        part == FindFloor(SelectedAfterSeparate(o3, dome, sel), dome)
        o4a == Rename(o4, dome, NAME_DOME_SHELL)
        floor == IF HasFloor(part) THEN Renamed(o4a, part, NAME_DOME_FLOOR) ELSE part
        o5 == FloorNameAndFlatten(o4a, part)
        o6 == FloorRemapAndMaterial(o5, floor, filepath, imageOK)
        o7 == ShellMaterialStep(o6, dome, filepath, imageOK)
        o8 == AddSun(o7)
        sun == Renamed(LightAdd(o7), UniqueName(o7, "Sun"), NAME_SUN)
        Raised(o, created) == Outcome(o, w1, "CYCLES", "RAISED", NoReport, created)
    IN  IF NotPath(filepath)
        THEN Outcome(objs, w, eng, "CANCELLED",
                     <<"ERROR", "Please select a Movie or Image strip.">>, {})
        ELSE IF failAt = FAULT_SPHERE_ADD THEN Raised(o1, {})
        ELSE IF failAt = FAULT_SHADE_SMOOTH THEN Raised(o2, {dome})
        ELSE IF failAt \in {FAULT_MODE_EDIT, FAULT_SELECT_ALL, FAULT_SEPARATE}
             THEN Raised(o3, {dome})
        ELSE IF failAt = FAULT_MODE_OBJECT THEN Raised(o4, {dome, part} \ {NoRef})
        ELSE IF failAt = FAULT_REDISTRIBUTE_MODE /\ HasFloor(part)
             THEN Raised(o5, {dome, floor})
        ELSE IF failAt = FAULT_LIGHT_ADD THEN Raised(o7, {dome, floor} \ {NoRef})
        ELSE Outcome(o8, w1, "CYCLES", "FINISHED",
                     <<"INFO", "Half Dome Setup Complete">>,
                     {dome, floor, sun} \ {NoRef})

-----------------------------------------------------------------------------
(* State.  objects, world and engine are the host scene; result and report *)
(* are what the last operator call returned and reported; call records the *)
(* last call: its operator, the kind of its active source, the mesh and    *)
(* image outcome the host gave it, the bpy.ops call that raised, the       *)
(* reserved names that were taken when it began, and the names of the      *)
(* objects it created.                                                     *)

UserCamera == NewObject(Bare("Camera"), "CAMERA")

DefaultWorld ==
    [exists |-> TRUE, name |-> "World", use_nodes |-> TRUE, has_tree |-> TRUE,
     nodes |-> DefaultWorldNodes, links |-> DefaultWorldLinks]

(* a user's own tree: its background node is not named "Background" *)
CustomWorld ==
    [exists |-> TRUE, name |-> "World", use_nodes |-> TRUE, has_tree |-> TRUE,
     nodes |-> {WNode("Sky", "ShaderNodeBackground", 1, NonePath),
                WNode("World Output", "ShaderNodeOutputWorld", 0, NonePath)},
     links |-> {<<"Sky", "Background", "World Output", "Surface">>}]

InitWorlds == {NoWorld, NewWorld("World"), DefaultWorld, CustomWorld}

Prior(objs) == {n \in ReservedNames : Named(objs, n) # {}}

SourceKind(strip) ==
    IF ~strip.editor \/ ~strip.active THEN "ABSENT"
    ELSE IF strip.type \in {"MOVIE", "IMAGE"} THEN "MEDIA"
    ELSE "OTHER"

CallRecord(op, strip, mesh, imageOK, failAt, objs, out) ==
    [op |-> op, source |-> SourceKind(strip),
     mesh |-> IF out.result = "CANCELLED" THEN "NONE" ELSE mesh,
     imageOK |-> imageOK /\ out.result # "CANCELLED",
     failAt |-> IF out.result = "RAISED" THEN failAt ELSE 0,
     prior |-> Prior(objs), created |-> out.created]

Init ==
    /\ objects = {UserCamera}
    /\ world \in InitWorlds
    /\ engine = "BLENDER_EEVEE"
    /\ result = "NONE"
    /\ report = NoReport
    /\ call = [op |-> "NONE", source |-> "ABSENT", mesh |-> "NONE", imageOK |-> FALSE,
               failAt |-> 0, prior |-> {}, created |-> {}]

Apply(out, op, strip, mesh, imageOK, failAt) ==
    /\ objects' = out.objects
    /\ world' = out.world
    /\ engine' = out.engine
    /\ result' = out.result
    /\ report' = out.report
    /\ call' = CallRecord(op, strip, mesh, imageOK, failAt, objects, out)

ConvertToEnvironment ==
    \E strip \in Strips, imageOK \in BOOLEAN :
        Apply(EnvironmentExecute(objects, world, engine, strip, imageOK),
              "ENVIRONMENT", strip, "NONE", imageOK, 0)

ConvertToHalfDome ==
    \E strip \in Strips, key \in MeshKeys, imageOK \in BOOLEAN :
        Apply(HalfDomeExecute(objects, world, engine, strip, Mesh(key), imageOK, 0),
              "HALF_DOME", strip, key, imageOK, 0)

Next == ConvertToEnvironment \/ ConvertToHalfDome

Spec == Init /\ [][Next]_vars

(* The half-dome operator with bpy.ops calls that may raise, on the movie  *)
(* strip.  A failure between the separation and the renaming leaves the    *)
(* separated part behind under a suffixed name; MaxLeftovers caps how many *)
(* of those pile up.                                                       *)
MaxLeftovers == 1

FaultMeshKeys == {"DOME", "ALL_SHELL", "ALL_FLOOR"}

Leftovers(objs) == {o \in objs : o.name[1] \in ReservedNames /\ o.name[2] > 0}

HalfDomeCompletes ==
    \E key \in FaultMeshKeys, imageOK \in BOOLEAN :
        Apply(HalfDomeExecute(objects, world, engine, MovieStrip, Mesh(key), imageOK, 0),
              "HALF_DOME", MovieStrip, key, imageOK, 0)

HalfDomeRaises ==
    \E key \in FaultMeshKeys, imageOK \in BOOLEAN, failAt \in FaultPoints :
        /\ failAt = FAULT_MODE_OBJECT => Cardinality(Leftovers(objects)) < MaxLeftovers
        /\ Apply(HalfDomeExecute(objects, world, engine, MovieStrip, Mesh(key), imageOK,
                                 failAt),
                 "HALF_DOME", MovieStrip, key, imageOK, failAt)

NextFault == HalfDomeCompletes \/ HalfDomeRaises

SpecFault == Init /\ [][NextFault]_vars

-----------------------------------------------------------------------------
(* Vocabulary of the properties                                            *)

WithBase(base) == {o \in objects : o.name[1] = base}

HalfDomeRan == call.op = "HALF_DOME" /\ result # "CANCELLED"

HalfDomeFinished == call.op = "HALF_DOME" /\ result = "FINISHED"

(* the mesh the host generated for the last half-dome call *)
CallMesh == Mesh(call.mesh)

FacesOf(objs) == UNION {DOMAIN o.faces : o \in objs}

HasMaterial(o, name) == \E i \in 1..Len(o.materials) : o.materials[i].name = name

(* median z <= 0.001, the median being the sum of the z over their number *)
MedianAtMostEps(m, f) == SumZ(m.verts, m.faces[f]) <= FLOOR_EPS * Len(m.faces[f])

RadiusSq(v) == v[1] * v[1] + v[2] * v[2]

Abs(n) == IF n < 0 THEN 0 - n ELSE n

Successors(links, S) == {l[3] : l \in {k \in links : k[1] \in S}}

RECURSIVE ReachFrom(_, _)
ReachFrom(links, S) ==
    LET T == S \cup Successors(links, S)
    IN  IF T = S THEN S ELSE ReachFrom(links, T)

Acyclic(links) == \A l \in links : l[1] \notin ReachFrom(links, {l[3]})

NodesOfType(mat, types) == {n \in DOMAIN mat.nodes : mat.nodes[n] \in types}

ValidGraph(mat) ==
    /\ \A l \in mat.links : l[1] \in DOMAIN mat.nodes /\ l[3] \in DOMAIN mat.nodes
    /\ Acyclic(mat.links)
    /\ \A k, l \in mat.links : (k[3] = l[3] /\ k[4] = l[4]) => k = l
    /\ NodesOfType(mat, {"ShaderNodeTexImage", "ShaderNodeTexEnvironment"}) # {}
    /\ NodesOfType(mat, {"ShaderNodeTexCoord"}) # {}
    /\ NodesOfType(mat, {"ShaderNodeOutputMaterial"}) # {}
    /\ NodesOfType(mat, {"ShaderNodeOutputMaterial"})
          \subseteq ReachFrom(mat.links, NodesOfType(mat, {"ShaderNodeTexCoord"}))

MaterialsWithoutImage ==
    {m \in UNION {{o.materials[i] : i \in 1..Len(o.materials)} : o \in objects} :
        m.image = NonePath}

-----------------------------------------------------------------------------
(* C1: after any sequence of conversions that do not raise, started from a *)
(* scene without reserved names, no reserved name is held by more than one *)
(* object, suffixed copies included; a finished half-dome conversion       *)
(* leaves exactly one shell and one sun, and exactly one floor whenever    *)
(* the partition selected a floor face.                                    *)
C1_OneObjectPerReservedName ==
    /\ \A n \in ReservedNames :
          /\ Cardinality(WithBase(n)) <= 1
          /\ \A o \in WithBase(n) : o.name = Bare(n)
    /\ HalfDomeFinished =>
          /\ Cardinality(Named(objects, NAME_DOME_SHELL)) = 1
          /\ Cardinality(Named(objects, NAME_SUN)) = 1
          /\ (\E f \in DOMAIN CallMesh.faces : MedianAtMostEps(CallMesh, f))
                => Cardinality(Named(objects, NAME_DOME_FLOOR)) = 1

(* a second half-dome conversion has replaced shell, floor and sun *)
C1_Witness ==
    /\ HalfDomeFinished
    /\ DomeNames \subseteq call.prior
    /\ \A n \in DomeNames : Cardinality(WithBase(n)) = 1

-----------------------------------------------------------------------------
(* C2: a conversion, of either operator, whose active source is absent or  *)
(* is neither an image nor a movie strip returns CANCELLED, reports the    *)
(* failure to the user and leaves engine, world and objects as they were.  *)
C2_CancelIsReportedAndChangesNothing ==
    [][(call'.source \in {"ABSENT", "OTHER"})
          => /\ result' = "CANCELLED"
             /\ report' # NoReport
             /\ objects' = objects /\ world' = world /\ engine' = engine]_vars

-----------------------------------------------------------------------------
(* C3 as claimed: after the flatten step every vertex of the floor mesh    *)
(* has z = 0 in the mesh's vertex data.                                    *)
C3_FloorVertexDataIsFlat ==
    HalfDomeFinished =>
        \A o \in Named(objects, NAME_DOME_FLOOR) :
            \A i \in DOMAIN o.verts : o.verts[i][3] = 0

(* C3 as amended: the flatten step sets the floor object's z scale to 0,   *)
(* so every floor vertex has vertical coordinate 0 once the object's scale *)
(* is applied, while the z stored in the mesh's vertex data stays as       *)
(* generated.                                                              *)
C3_FloorIsFlattenedByScale ==
    HalfDomeFinished =>
        \A o \in Named(objects, NAME_DOME_FLOOR) :
            /\ o.scale = <<DOME_SCALE, DOME_SCALE, 0>>
            /\ \A i \in DOMAIN o.verts :
                  /\ o.verts[i][3] * o.scale[3] = 0
                  /\ o.verts[i][3] = CallMesh.verts[i][3]

(* a flattened floor one of whose vertices keeps a non-zero z in its data *)
C3_Witness ==
    /\ HalfDomeFinished
    /\ \E o \in Named(objects, NAME_DOME_FLOOR) :
          o.scale[3] = 0 /\ \E i \in DOMAIN o.verts : o.verts[i][3] # 0

-----------------------------------------------------------------------------
(* C4: the partition puts every face of the generated mesh in exactly one  *)
(* of shell and floor, a face being in the floor iff the median z of its   *)
(* vertices is <= 0.001; of the faces with median z -0.5, -0.1, 0.0, 0.2,  *)
(* 0.9 the first three are the floor and the last two the shell.           *)
C4_PartitionByMedianZ ==
    HalfDomeFinished =>
        LET shell == Named(objects, NAME_DOME_SHELL)
            floor == Named(objects, NAME_DOME_FLOOR)
        IN  /\ FacesOf(shell) \cap FacesOf(floor) = {}
            /\ FacesOf(shell) \cup FacesOf(floor) = DOMAIN CallMesh.faces
            /\ \A f \in DOMAIN CallMesh.faces :
                  f \in FacesOf(floor) <=> MedianAtMostEps(CallMesh, f)
            /\ \A o \in shell \cup floor :
                  \A f \in DOMAIN o.faces : o.faces[f] = CallMesh.faces[f]
            /\ call.mesh = "EXAMPLE" =>
                  FacesOf(floor) = {1, 2, 3} /\ FacesOf(shell) = {4, 5}

(* the example mesh, partitioned *)
C4_Witness ==
    /\ HalfDomeFinished
    /\ call.mesh = "EXAMPLE"
    /\ FacesOf(Named(objects, NAME_DOME_FLOOR)) = {1, 2, 3}
    /\ FacesOf(Named(objects, NAME_DOME_SHELL)) = {4, 5}

-----------------------------------------------------------------------------
-----------------------------------------------------------------------------
(* C6: when loading the image fails, the floor graph and the shell graph   *)
(* are still built and the conversion finishes; each graph is acyclic, has *)
(* at most one link into any input socket, holds its image node with an    *)
(* empty image, and its output node is reachable from its coordinate node. *)
C6_GraphsSurviveImageLoadFailure ==
    /\ \A m \in MaterialsWithoutImage : ValidGraph(m)
    /\ (HalfDomeRan /\ ~call.imageOK) =>
          /\ result = "FINISHED"
          /\ \A o \in Named(objects, NAME_DOME_SHELL) \cup Named(objects, NAME_DOME_FLOOR) :
                Len(o.materials) = 1 /\ o.materials[1].image = NonePath
          /\ Named(objects, NAME_DOME_SHELL) # {}

(* both graphs built around an image that failed to load *)
C6_Witness ==
    /\ HalfDomeFinished /\ ~call.imageOK
    /\ \E o \in Named(objects, NAME_DOME_FLOOR) :
          HasMaterial(o, "VSE_Dome_Mat_Floor") /\ o.materials[1].image = NonePath
    /\ \E o \in Named(objects, NAME_DOME_SHELL) :
          HasMaterial(o, "VSE_Dome_Mat_Shell") /\ o.materials[1].image = NonePath

-----------------------------------------------------------------------------
(* The floor vertices of the last finished half-dome conversion, each with *)
(* the vertex the host generated: <<before, after>>.                       *)
FloorVertexPairs ==
    IF HalfDomeFinished
    THEN UNION {{<<CallMesh.verts[i], o.verts[i]>> : i \in DOMAIN o.verts} :
                o \in Named(objects, NAME_DOME_FLOOR)}
    ELSE {}

(* x and y were multiplied by one factor, up to the rounding of each *)
SameFactor(p) ==
    /\ p[1][1] * p[2][1] >= 0 /\ p[1][2] * p[2][2] >= 0
    /\ (p[1][1] = 0 => p[2][1] = 0) /\ (p[1][2] = 0 => p[2][2] = 0)
    /\ Abs(p[2][1] * p[1][2] - p[2][2] * p[1][1]) <= Abs(p[1][1]) + Abs(p[1][2])

(* C7 as claimed: a floor vertex at planar radius r in (0, 1] moves to a   *)
(* radius remap(r) with remap(r) > 0, remap(r) <= 1 and remap(r) / r >= 1, *)
(* x and y being multiplied by one factor; radius 0 stays 0 and radius 1   *)
(* stays 1.                                                                *)
C7_RemapExpands ==
    \A p \in FloorVertexPairs :
        /\ (RadiusSq(p[1]) > 0 /\ RadiusSq(p[1]) <= Unit * Unit) =>
              /\ RadiusSq(p[2]) > 0
              /\ RadiusSq(p[2]) <= Unit * Unit
              /\ RadiusSq(p[2]) >= RadiusSq(p[1])
              /\ SameFactor(p)
        /\ RadiusSq(p[1]) = 0 => RadiusSq(p[2]) = 0
        /\ RadiusSq(p[1]) = Unit * Unit => RadiusSq(p[2]) = Unit * Unit

(* C7 as amended: a floor vertex at planar radius r in (0, 1] moves to a   *)
(* radius remap(r) with remap(r) > 0, remap(r) <= 1 and remap(r) / r <= 1  *)
(* (below 1 for 0.0001 < r < 1: the rings move inward), x and y being      *)
(* multiplied by one factor; radius 0 stays 0 and radius 1 stays 1.        *)
C7_RemapContracts ==
    \A p \in FloorVertexPairs :
        /\ (RadiusSq(p[1]) > 0 /\ RadiusSq(p[1]) <= Unit * Unit) =>
              /\ RadiusSq(p[2]) > 0
              /\ RadiusSq(p[2]) <= Unit * Unit
              /\ RadiusSq(p[2]) <= RadiusSq(p[1])
              /\ (RadiusSq(p[1]) > CENTER_EPS * CENTER_EPS /\ RadiusSq(p[1]) < Unit * Unit)
                    => RadiusSq(p[2]) < RadiusSq(p[1])
              /\ SameFactor(p)
        /\ RadiusSq(p[1]) = 0 => RadiusSq(p[2]) = 0
        /\ RadiusSq(p[1]) = Unit * Unit => RadiusSq(p[2]) = Unit * Unit

(* a floor vertex off both axes, at radius 0.5, that moved inward, and one *)
(* on the rim that stayed                                                  *)
C7_Witness ==
    /\ \E p \in FloorVertexPairs :
          /\ p[1][1] # 0 /\ p[1][2] # 0
          /\ 4 * RadiusSq(p[1]) = Unit * Unit
          /\ RadiusSq(p[2]) < RadiusSq(p[1])
    /\ \E p \in FloorVertexPairs :
          RadiusSq(p[1]) = Unit * Unit /\ RadiusSq(p[2]) = Unit * Unit

-----------------------------------------------------------------------------
-----------------------------------------------------------------------------
(* construction of a shell or floor ends with its material, the sun's with *)
(* its energy                                                              *)
Finished(o) == IF o.type = "LIGHT" THEN o.energy = 3 ELSE o.materials # <<>>

HalfDomeRaised == call.op = "HALF_DOME" /\ result = "RAISED"

(* C9 as claimed: when the half-dome conversion fails after its delete     *)
(* step, every reserved name whose entity is not finished is absent: the   *)
(* prior entity is not restored and no unfinished object holds the name.   *)
C9_FailureLeavesUnfinishedNamesAbsent ==
    HalfDomeRaised =>
        \A n \in DomeNames : \A o \in Named(objects, n) :
            o.name \in call.created /\ Finished(o)

(* C9 as amended: when the half-dome conversion fails after its delete     *)
(* step, no prior shell, floor or sun is restored and the sun name is      *)
(* absent; the shell name is absent only when the sphere was never made,   *)
(* otherwise the new sphere holds it from its creation on, before it is    *)
(* partitioned or given a material; the floor name is held by the new      *)
(* floor from its renaming on, before it is remapped or given a material.  *)
C9_FailureLeavesNoPriorEntity ==
    HalfDomeRaised =>
        /\ \A n \in DomeNames : \A o \in Named(objects, n) : o.name \in call.created
        /\ Named(objects, NAME_SUN) = {}
        /\ Named(objects, NAME_DOME_SHELL) = {} <=> call.failAt = FAULT_SPHERE_ADD
        /\ \A o \in Named(objects, NAME_DOME_SHELL) :
              Finished(o) <=> call.failAt = FAULT_LIGHT_ADD
        /\ \A o \in Named(objects, NAME_DOME_FLOOR) :
              /\ call.failAt \in {FAULT_REDISTRIBUTE_MODE, FAULT_LIGHT_ADD}
              /\ Finished(o) <=> call.failAt = FAULT_LIGHT_ADD

(* a failed conversion that replaced a prior shell, floor and sun and left *)
(* the unfinished sphere under the shell name                              *)
C9_Witness ==
    /\ HalfDomeRaised
    /\ DomeNames \subseteq call.prior
    /\ \E o \in Named(objects, NAME_DOME_SHELL) : ~Finished(o)
    /\ Named(objects, NAME_DOME_FLOOR) = {}
    /\ Named(objects, NAME_SUN) = {}

-----------------------------------------------------------------------------
(* the world's background contributes nothing *)
Dark(w) ==
    /\ w.exists /\ w.use_nodes
    /\ \A n \in w.nodes : n.type = "ShaderNodeBackground" => n.strength = 0

(* C10: every finished half-dome conversion, whatever the world was, leaves *)
(* the world's background at strength 0, and it stays 0 until an           *)
(* environment conversion rebuilds the world's nodes.                      *)
C10_BackgroundDarkened ==
    [][/\ (call'.op = "HALF_DOME" /\ result' = "FINISHED") => Dark(world')
       /\ (Dark(world) /\ ~(call'.op = "ENVIRONMENT" /\ result' = "FINISHED"))
             => Dark(world')]_vars

====
